---------------------------- MODULE Spec2Model ----------------------------
(***************************************************************************)
(* A model of mardiportal.workflowtools.mardikg_query: the retrying query  *)
(* executor query_mardi_kg, the two result normalizers                     *)
(* query_mardi_kg_for_arxivid / query_mardi_kg_for_doi, and the diagnostic *)
(* command builder generate_curl_command.                                  *)
(*                                                                         *)
(* Python strings are sequences of one-character strings, so that          *)
(* str.replace, re.search, re.match and shlex.quote are computed character *)
(* by character.  A dict is a record whose DOMAIN is the set of its keys   *)
(* (the params dict, whose insertion order matters to the curl command, is *)
(* a sequence of key/value pairs).  Python's None is the record None.      *)
(***************************************************************************)
EXTENDS Integers, Sequences, FiniteSets, TLC

VARIABLES
    pc,              \* position of the single (synchronous) thread of control
    caller,          \* the call made by the client code: function and arguments
    query,           \* query_mardi_kg: parameter query
    max_retries,     \* query_mardi_kg: parameter max_retries
    retry_delay,     \* query_mardi_kg: parameter retry_delay
    api_url,         \* query_mardi_kg: parameter api_url
    namespace,       \* query_mardi_kg: parameter namespace
    params,          \* query_mardi_kg: local params
    last_exception,  \* query_mardi_kg: local last_exception
    attempt,         \* query_mardi_kg: loop variable attempt (0 before the loop)
    data,            \* the parsed JSON body (local data of executor and wrapper)
    results,         \* normalizer: local results
    i,               \* normalizer: number of entries of the search list consumed
    log,             \* the effects on the outside world, in order: post, sleep, print
    outcome,         \* what the client code gets: a returned value or a raised error
    env,             \* what a call of secrets_helper or of a storage client finds outside
    frame            \* the local variables of that call, under their names in the source

vars == <<pc, caller, query, max_retries, retry_delay, api_url, namespace, params,
          last_exception, attempt, data, results, i, log, outcome, env, frame>>

\* the variables the query helper never touches
client_vars == <<env, frame>>

kg_vars == <<query, max_retries, retry_delay, api_url, namespace, params>>

-----------------------------------------------------------------------------
(* Bounds of the model.                                                    *)

\* the largest max_retries a call is made with
MaxRetriesBound == 3
\* the largest number of entries of payload.query.search
MaxEntries == 2
\* the largest number of pieces a generated snippet is concatenated from
MaxPieces == 3

-----------------------------------------------------------------------------
(* Values.                                                                 *)

None == [none |-> TRUE]

EmptyDict == [k \in {} |-> None]

\* dict.get(key, default)
Get(d, key, default) == IF key \in DOMAIN d THEN d[key] ELSE default

DEFAULT_API_URL ==
    <<"h", "t", "t", "p", "s", ":", "/", "/", "p", "o", "r", "t", "a", "l", ".",
      "m", "a", "r", "d", "i", "4", "n", "f", "d", "i", ".", "d", "e", "/", "w",
      "/", "a", "p", "i", ".", "p", "h", "p">>

DEFAULT_NAMESPACE == <<"4", "2", "0", "6">>

OPEN_MARK ==
    <<"<", "s", "p", "a", "n", " ", "c", "l", "a", "s", "s", "=", "\"", "s", "e",
      "a", "r", "c", "h", "m", "a", "t", "c", "h", "\"", ">">>

CLOSE_MARK == <<"<", "/", "s", "p", "a", "n", ">">>

NO_TITLE == <<"(", "n", "o", " ", "t", "i", "t", "l", "e", ")">>

ALL_RETRIES_FAILED ==
    <<"A", "l", "l", " ", "r", "e", "t", "r", "i", "e", "s", " ", "f", "a", "i",
      "l", "e", "d", ".", " ", "C", "u", "r", "l", " ", "f", "o", "r", " ", "d",
      "e", "b", "u", "g", "g", "i", "n", "g", ":">>

Digits == {"0", "1", "2", "3", "4", "5", "6", "7", "8", "9"}

-----------------------------------------------------------------------------
(* String helpers.                                                         *)

\* s[from:] of Python, from counted from 1
Tail_from(s, from) == SubSeq(s, from, Len(s))

\* s.startswith(p, at - 1): p occurs in s at position at
occurs_at(s, p, at) ==
    /\ at >= 1
    /\ at + Len(p) - 1 <= Len(s)
    /\ \A k \in 1..Len(p) : s[at + k - 1] = p[k]

\* p in s
contains(s, p) == \E at \in 1..(Len(s) + 1) : occurs_at(s, p, at)

RECURSIVE join(_, _)
\* sep.join(parts)
join(parts, sep) ==
    IF parts = <<>> THEN <<>>
    ELSE IF Len(parts) = 1 THEN parts[1]
    ELSE parts[1] \o sep \o join(Tail(parts), sep)


-----------------------------------------------------------------------------
(* generate_curl_command, form mode (json_data = False), the only mode the *)
(* executor calls it in.                                                   *)

Letters ==
    {"a", "b", "c", "d", "e", "f", "g", "h", "i", "j", "k", "l", "m", "n", "o",
     "p", "q", "r", "s", "t", "u", "v", "w", "x", "y", "z",
     "A", "B", "C", "D", "E", "F", "G", "H", "I", "J", "K", "L", "M", "N", "O",
     "P", "Q", "R", "S", "T", "U", "V", "W", "X", "Y", "Z"}

\* the characters shlex.quote leaves alone: [\w@%+=:,./-] under re.ASCII
SafeChars == Letters \cup Digits \cup {"_", "@", "%", "+", "=", ":", ",", ".", "/", "-"}

RECURSIVE escape_single_quotes(_)
\* s.replace("'", "'\"'\"'")
escape_single_quotes(s) ==
    IF s = <<>> THEN <<>>
    ELSE (IF Head(s) = "'" THEN <<"'", "\"", "'", "\"", "'">> ELSE <<Head(s)>>)
         \o escape_single_quotes(Tail(s))

\* shlex.quote(s)
shlex_quote(s) ==
    IF s = <<>> THEN <<"'", "'">>
    ELSE IF \A k \in 1..Len(s) : s[k] \in SafeChars THEN s
    ELSE <<"'">> \o escape_single_quotes(s) \o <<"'">>

\* '&'.join(f'{k}={v}' for k, v in params.items())
form_data_str(ps) ==
    join([n \in 1..Len(ps) |-> ps[n].k \o <<"=">> \o ps[n].v], <<"&">>)

\* f"curl -X POST {shlex.quote(url)} -d {escaped_data}"
generate_curl_command(url, ps) ==
    <<"c", "u", "r", "l", " ", "-", "X", " ", "P", "O", "S", "T", " ">>
    \o shlex_quote(url)
    \o <<" ", "-", "d", " ">>
    \o shlex_quote(form_data_str(ps))

-----------------------------------------------------------------------------
(* query_mardi_kg: the retrying query executor.                            *)

\* the params dict of query_mardi_kg, in insertion order
build_params(q, ns) ==
    << [k |-> <<"a", "c", "t", "i", "o", "n">>, v |-> <<"q", "u", "e", "r", "y">>],
       [k |-> <<"l", "i", "s", "t">>, v |-> <<"s", "e", "a", "r", "c", "h">>],
       [k |-> <<"s", "r", "s", "e", "a", "r", "c", "h">>, v |-> q],
       [k |-> <<"s", "r", "n", "a", "m", "e", "s", "p", "a", "c", "e">>, v |-> ns],
       [k |-> <<"f", "o", "r", "m", "a", "t">>, v |-> <<"j", "s", "o", "n">>] >>

\* entry into query_mardi_kg: parameters bound, params built, last_exception = None
enter_query_mardi_kg(q, mr, rd, url, ns) ==
    /\ query' = q
    /\ max_retries' = mr
    /\ retry_delay' = rd
    /\ api_url' = url
    /\ namespace' = ns
    /\ params' = build_params(q, ns)
    /\ last_exception' = None
    /\ attempt' = 0
    /\ pc' = "kg_for"

\* the client code calls query_mardi_kg directly
call_query_mardi_kg(q, mr, rd, url, ns) ==
    /\ pc = "idle"
    /\ caller' = [fn |-> "query_mardi_kg", arg |-> q, max_retries |-> mr,
                  retry_delay |-> rd, api_url |-> url, namespace |-> ns]
    /\ enter_query_mardi_kg(q, mr, rd, url, ns)
    /\ UNCHANGED <<data, results, i, log, outcome>>
    /\ UNCHANGED client_vars

\* for attempt in range(1, max_retries + 1): the next iteration, or the else clause
kg_for ==
    /\ pc = "kg_for"
    /\ IF attempt < max_retries
       THEN attempt' = attempt + 1 /\ pc' = "kg_try"
       ELSE attempt' = attempt /\ pc' = "kg_else"
    /\ UNCHANGED <<caller, kg_vars, last_exception, data, results, i, log, outcome>>
    /\ UNCHANGED client_vars

\* the exception an unsuccessful attempt raises: its class and the attempt it is of
Exc(cls, n) == [cls |-> cls, attempt |-> n]

\* the classes of requests.RequestException the three calls of the try body raise
RequestExceptionClasses == {"ConnectionError", "HTTPError"}

\* a class outside requests.RequestException
OtherExceptionClasses == {"ValueError"}

\* kg_try_ok with the break forgotten: the loop goes on after a success
kg_try_ok_no_break(body) ==
    /\ pc = "kg_try"
    /\ log' = Append(log, [op |-> "post", url |-> api_url, data |-> params,
                           attempt |-> attempt, result |-> [ok |-> body]])
    /\ data' = body
    /\ pc' = "kg_for"
    /\ UNCHANGED <<caller, kg_vars, last_exception, attempt, results, i, outcome>>
    /\ UNCHANGED client_vars

\* the try body runs through: post, raise_for_status, json; then break
kg_try_ok(body) ==
    /\ pc = "kg_try"
    /\ log' = Append(log, [op |-> "post", url |-> api_url, data |-> params,
                           attempt |-> attempt, result |-> [ok |-> body]])
    /\ data' = body
    /\ pc' = "kg_return"
    /\ UNCHANGED <<caller, kg_vars, last_exception, attempt, results, i, outcome>>
    /\ UNCHANGED client_vars

\* except_RequestException remembering the first error instead of the last
except_RequestException_keep_first(e) ==
    /\ last_exception' = IF last_exception = None THEN e ELSE last_exception
    /\ pc' = IF attempt < max_retries THEN "kg_sleep" ELSE "kg_for"

\* except_RequestException sleeping after the last attempt too
except_RequestException_always_sleep(e) ==
    /\ last_exception' = e
    /\ pc' = "kg_sleep"

\* the except clause: remember the error, sleep unless this was the last attempt
except_RequestException(e) ==
    /\ last_exception' = e
    /\ pc' = IF attempt < max_retries THEN "kg_sleep" ELSE "kg_for"

\* the try body raises a requests.RequestException
kg_try_RequestException(cls) ==
    /\ pc = "kg_try"
    /\ log' = Append(log, [op |-> "post", url |-> api_url, data |-> params,
                           attempt |-> attempt, result |-> [raised |-> Exc(cls, attempt)]])
    /\ except_RequestException(Exc(cls, attempt))
    /\ UNCHANGED <<caller, kg_vars, attempt, data, results, i, outcome>>
    /\ UNCHANGED client_vars

\* a try body whose other exceptions are caught like the transport errors
kg_try_other_exception_caught(cls) ==
    /\ pc = "kg_try"
    /\ log' = Append(log, [op |-> "post", url |-> api_url, data |-> params,
                           attempt |-> attempt, result |-> [raised |-> Exc(cls, attempt)]])
    /\ except_RequestException(Exc(cls, attempt))
    /\ UNCHANGED <<caller, kg_vars, attempt, data, results, i, outcome>>
    /\ UNCHANGED client_vars

\* the try body raises something else: no except clause matches, it propagates
kg_try_other_exception(cls) ==
    /\ pc = "kg_try"
    /\ log' = Append(log, [op |-> "post", url |-> api_url, data |-> params,
                           attempt |-> attempt, result |-> [raised |-> Exc(cls, attempt)]])
    /\ outcome' = [raised |-> Exc(cls, attempt)]
    /\ pc' = "raised"
    /\ UNCHANGED <<caller, kg_vars, last_exception, attempt, data, results, i>>
    /\ UNCHANGED client_vars

\* a wait that also marks the request as a retry in params
kg_sleep_marks_retry ==
    /\ pc = "kg_sleep"
    /\ log' = Append(log, [op |-> "sleep", secs |-> retry_delay])
    /\ params' = Append(params, [k |-> <<"m", "a", "x", "l", "a", "g">>, v |-> <<"5">>])
    /\ pc' = "kg_for"
    /\ UNCHANGED <<caller, query, max_retries, retry_delay, api_url, namespace,
                   last_exception, attempt, data, results, i, outcome>>
    /\ UNCHANGED client_vars

\* time.sleep(retry_delay)
kg_sleep ==
    /\ pc = "kg_sleep"
    /\ log' = Append(log, [op |-> "sleep", secs |-> retry_delay])
    /\ pc' = "kg_for"
    /\ UNCHANGED <<caller, kg_vars, last_exception, attempt, data, results, i, outcome>>
    /\ UNCHANGED client_vars

\* else_prints calling generate_curl_command(api_url) without the params
else_prints_without_params(url, ps) ==
    << [op |-> "print", text |-> ALL_RETRIES_FAILED],
       [op |-> "print", text |-> generate_curl_command(url, <<>>)] >>

\* the two print calls of the else clause
else_prints(url, ps) ==
    << [op |-> "print", text |-> ALL_RETRIES_FAILED],
       [op |-> "print", text |-> generate_curl_command(url, ps)] >>

\* else clause of the for loop, the two prints
kg_else ==
    /\ pc = "kg_else"
    /\ log' = log \o else_prints(api_url, params)
    /\ pc' = "kg_raise"
    /\ UNCHANGED <<caller, kg_vars, last_exception, attempt, data, results, i, outcome>>
    /\ UNCHANGED client_vars

\* an executor whose error a wrapper turns into an empty list
kg_raise_caught_by_wrapper ==
    /\ pc = "kg_raise"
    /\ IF caller.fn = "query_mardi_kg"
       THEN /\ outcome' = IF last_exception = None
                           THEN [raised |-> Exc("TypeError", attempt)]
                           ELSE [raised |-> last_exception]
            /\ pc' = "raised"
       ELSE /\ outcome' = [returned |-> <<>>]
            /\ pc' = "done"
    /\ UNCHANGED <<caller, kg_vars, last_exception, attempt, data, results, i, log>>
    /\ UNCHANGED client_vars

\* raise last_exception; raising None is a TypeError
kg_raise ==
    /\ pc = "kg_raise"
    /\ outcome' = IF last_exception = None
                  THEN [raised |-> Exc("TypeError", attempt)]
                  ELSE [raised |-> last_exception]
    /\ pc' = "raised"
    /\ UNCHANGED <<caller, kg_vars, last_exception, attempt, data, results, i, log>>
    /\ UNCHANGED client_vars


\* return data: to the client code, or into the wrapper that called the executor
kg_return ==
    /\ pc = "kg_return"
    /\ IF caller.fn = "query_mardi_kg"
       THEN /\ outcome' = [returned |-> data]
            /\ pc' = "done"
            /\ UNCHANGED <<results, i>>
       ELSE /\ results' = <<>>
            /\ i' = 0
            /\ pc' = "norm_for"
            /\ UNCHANGED outcome
    /\ UNCHANGED <<caller, kg_vars, last_exception, attempt, data, log>>
    /\ UNCHANGED client_vars

-----------------------------------------------------------------------------
(* The result normalizers.                                                 *)

RECURSIVE str_replace(_, _)
\* s.replace(old, ""): one scan from the left, over non-overlapping occurrences
str_replace(s, old) ==
    IF s = <<>> THEN <<>>
    ELSE IF occurs_at(s, old, 1) THEN str_replace(Tail_from(s, Len(old) + 1), old)
    ELSE <<Head(s)>> \o str_replace(Tail(s), old)

\* clean with the second replace forgotten: only the opening marker is removed
clean_open_only(snippet) == str_replace(snippet, OPEN_MARK)

\* snippet.replace("<span class=\"searchmatch\">", "").replace("</span>", "")
clean(snippet) == str_replace(str_replace(snippet, OPEN_MARK), CLOSE_MARK)

RECURSIVE digits_run(_, _)
\* what a greedy \d+ consumes from position at on (\d restricted to ASCII digits)
digits_run(s, at) ==
    IF at <= Len(s) /\ s[at] \in Digits
    THEN <<s[at]>> \o digits_run(s, at + 1)
    ELSE <<>>

QIDQ == <<"Q", "I", "D", "Q">>

PUBLICATION == <<"P", "u", "b", "l", "i", "c", "a", "t", "i", "o", "n", ":">>

RECURSIVE re_search_QID(_, _)
\* re.search(r"QID(Q\d+)", s), scanning from position at: group(1), or None
re_search_QID(s, at) ==
    IF at > Len(s) THEN None
    ELSE IF occurs_at(s, QIDQ, at) /\ digits_run(s, at + Len(QIDQ)) # <<>>
    THEN <<"Q">> \o digits_run(s, at + Len(QIDQ))
    ELSE re_search_QID(s, at + 1)

\* re.match(r"Publication:(\d+)", title): group(1), or None
re_match_Publication(title) ==
    IF occurs_at(title, PUBLICATION, 1) /\ digits_run(title, Len(PUBLICATION) + 1) # <<>>
    THEN digits_run(title, Len(PUBLICATION) + 1)
    ELSE None

\* arxivid_qid falling back to the title when the snippet holds no QID
arxivid_qid_title_fallback(title, clean_snippet) ==
    IF re_search_QID(clean_snippet, 1) # None THEN re_search_QID(clean_snippet, 1)
    ELSE re_search_QID(title, 1)

\* the qid of query_mardi_kg_for_arxivid: from the cleaned snippet
arxivid_qid(title, clean_snippet) == re_search_QID(clean_snippet, 1)

\* the qid of query_mardi_kg_for_doi: from the title
doi_qid(title, clean_snippet) ==
    IF re_match_Publication(title) = None THEN None
    ELSE <<"Q">> \o re_match_Publication(title)

\* arxivid_record with r["title"]-like defaults: the empty string for a missing title
arxivid_record_empty_title(r) ==
    LET snippet == Get(r, "snippet", <<>>)
        clean_snippet == clean(snippet)
    IN  [qid |-> arxivid_qid(Get(r, "title", <<>>), clean_snippet),
         title |-> Get(r, "title", <<>>),
         snippet |-> clean_snippet]

\* the record query_mardi_kg_for_arxivid appends for entry r
arxivid_record(r) ==
    LET snippet == Get(r, "snippet", <<>>)
        clean_snippet == clean(snippet)
    IN  [qid |-> arxivid_qid(Get(r, "title", NO_TITLE), clean_snippet),
         title |-> Get(r, "title", NO_TITLE),
         snippet |-> clean_snippet]

\* the record query_mardi_kg_for_doi appends for entry r
doi_record(r) ==
    LET snippet == Get(r, "snippet", <<>>)
        clean_snippet == clean(snippet)
        title == Get(r, "title", NO_TITLE)
    IN  [qid |-> doi_qid(title, clean_snippet),
         title |-> title,
         snippet |-> clean_snippet]

\* data.get("query", {}).get("search", [])
search_list(d) == Get(Get(d, "query", EmptyDict), "search", <<>>)

\* f"arXiv{arxiv_id}MaRDI"
arxiv_query(arxiv_id) == <<"a", "r", "X", "i", "v">> \o arxiv_id \o <<"M", "a", "R", "D", "I">>

\* doi_query without the surrounding double quotes
doi_query_unquoted(doi) == <<"d", "o", "i", ".", "o", "r", "g", "/">> \o doi

\* f'"doi.org/{doi}"'
doi_query(doi) == <<"\"", "d", "o", "i", ".", "o", "r", "g", "/">> \o doi \o <<"\"">>

\* arxivid_kg_args not handing the namespace on: the executor's default applies
arxivid_kg_args_default_namespace(arxiv_id, mr, rd, url, ns) ==
    [query |-> arxiv_query(arxiv_id), max_retries |-> mr, retry_delay |-> rd,
     api_url |-> url, namespace |-> DEFAULT_NAMESPACE]

\* the arguments query_mardi_kg_for_arxivid calls query_mardi_kg with
arxivid_kg_args(arxiv_id, mr, rd, url, ns) ==
    [query |-> arxiv_query(arxiv_id), max_retries |-> mr, retry_delay |-> rd,
     api_url |-> url, namespace |-> ns]

\* the arguments query_mardi_kg_for_doi calls query_mardi_kg with
doi_kg_args(doi, mr, rd, url, ns) ==
    [query |-> doi_query(doi), max_retries |-> mr, retry_delay |-> rd,
     api_url |-> url, namespace |-> ns]

\* the client code calls query_mardi_kg_for_arxivid
call_query_mardi_kg_for_arxivid(arxiv_id, mr, rd, url, ns) ==
    /\ pc = "idle"
    /\ caller' = [fn |-> "query_mardi_kg_for_arxivid", arg |-> arxiv_id,
                  max_retries |-> mr, retry_delay |-> rd, api_url |-> url,
                  namespace |-> ns]
    /\ LET a == arxivid_kg_args(arxiv_id, mr, rd, url, ns)
       IN  enter_query_mardi_kg(a.query, a.max_retries, a.retry_delay, a.api_url,
                                a.namespace)
    /\ UNCHANGED <<data, results, i, log, outcome>>
    /\ UNCHANGED client_vars

\* the client code calls query_mardi_kg_for_doi
call_query_mardi_kg_for_doi(doi, mr, rd, url, ns) ==
    /\ pc = "idle"
    /\ caller' = [fn |-> "query_mardi_kg_for_doi", arg |-> doi,
                  max_retries |-> mr, retry_delay |-> rd, api_url |-> url,
                  namespace |-> ns]
    /\ LET a == doi_kg_args(doi, mr, rd, url, ns)
       IN  enter_query_mardi_kg(a.query, a.max_retries, a.retry_delay, a.api_url,
                                a.namespace)
    /\ UNCHANGED <<data, results, i, log, outcome>>
    /\ UNCHANGED client_vars

\* an iteration that puts its record in front of the earlier ones
norm_body_arxivid_prepend ==
    /\ pc = "norm_for"
    /\ caller.fn = "query_mardi_kg_for_arxivid"
    /\ i < Len(search_list(data))
    /\ results' = <<arxivid_record(search_list(data)[i + 1])>> \o results
    /\ i' = i + 1
    /\ UNCHANGED <<pc, caller, kg_vars, last_exception, attempt, data, log, outcome>>
    /\ UNCHANGED client_vars

\* one iteration of the for loop of query_mardi_kg_for_arxivid
norm_body_arxivid ==
    /\ pc = "norm_for"
    /\ caller.fn = "query_mardi_kg_for_arxivid"
    /\ i < Len(search_list(data))
    /\ results' = Append(results, arxivid_record(search_list(data)[i + 1]))
    /\ i' = i + 1
    /\ UNCHANGED <<pc, caller, kg_vars, last_exception, attempt, data, log, outcome>>
    /\ UNCHANGED client_vars

\* one iteration of the for loop of query_mardi_kg_for_doi
norm_body_doi ==
    /\ pc = "norm_for"
    /\ caller.fn = "query_mardi_kg_for_doi"
    /\ i < Len(search_list(data))
    /\ results' = Append(results, doi_record(search_list(data)[i + 1]))
    /\ i' = i + 1
    /\ UNCHANGED <<pc, caller, kg_vars, last_exception, attempt, data, log, outcome>>
    /\ UNCHANGED client_vars

\* the loop is over: return results
norm_return ==
    /\ pc = "norm_for"
    /\ i = Len(search_list(data))
    /\ outcome' = [returned |-> results]
    /\ pc' = "done"
    /\ UNCHANGED <<caller, kg_vars, last_exception, attempt, data, results, i, log>>
    /\ UNCHANGED client_vars

-----------------------------------------------------------------------------
(* The inputs of the calls and the answers of the server.                  *)

ArxivIds == {<<"2", "1", "0", "4", ".", "0", "6", "1", "7", "5">>, <<"a", " ", "b">>}

Dois == {<<"1", "0", ".", "1", "0", "0", "7", "/", "s", "4", "0", "3", "0", "5", "-", "0", "1", "8", "-", "0", "2", "1", "0", "-", "x">>, <<"1", "'", "&", "=">>}

Queries == {<<"M", "a", "R", "D", "I">>, <<"f", "i", "n", "a", "l", "-", "q", "u", "e", "r", "y">>}

ApiUrls == {DEFAULT_API_URL, <<"h", "t", "t", "p", ":", "/", "/", "l", "o", "c", "a", "l", "h", "o", "s", "t", "/", "a", "p", "i", ".", "p", "h", "p", "?", "x", "=", "1">>}

Namespaces == {DEFAULT_NAMESPACE, <<"0">>}

RetryDelays == {0, 2}

MaxRetriesValues == 0..MaxRetriesBound

\* an entry as the tests give it: highlighted match holding the QID
entry_test == [title |-> <<"P", "u", "b", "l", "i", "c", "a", "t", "i", "o", "n", ":", "2", "1", "7", "6", "8", "2", "8">>,
               snippet |-> <<"I", "n", "t", "r", "o", " ">> \o OPEN_MARK \o <<"Q", "I", "D", "Q", "1", "2", "3">>
                           \o CLOSE_MARK \o <<" ", "d", "e", "t", "a", "i", "l", "s">>]

entry_no_title == [snippet |-> <<"Q", "I", "D", "Q", "7">>]

entry_no_snippet == [title |-> <<"P", "u", "b", "l", "i", "c", "a", "t", "i", "o", "n", ":", "9", "9", "9">>]

\* the JSON bodies the server answers with in the executor's specification
Payloads ==
    { [batchcomplete |-> <<>>],
      [query |-> [searchinfo |-> <<>>]],
      [query |-> [search |-> <<>>]],
      [query |-> [search |-> <<entry_test>>]],
      [query |-> [search |-> <<entry_no_title, entry_no_snippet>>]] }

-----------------------------------------------------------------------------
(* The specification of a call from the client code to its end.            *)

Init ==
    /\ pc = "idle"
    /\ caller = None
    /\ query = None
    /\ max_retries = 0
    /\ retry_delay = 0
    /\ api_url = None
    /\ namespace = None
    /\ params = <<>>
    /\ last_exception = None
    /\ attempt = 0
    /\ data = None
    /\ results = <<>>
    /\ i = 0
    /\ log = <<>>
    /\ outcome = None
    /\ env = None
    /\ frame = None

Next ==
    \/ \E q \in Queries, mr \in MaxRetriesValues, rd \in RetryDelays,
          url \in ApiUrls, ns \in Namespaces :
          call_query_mardi_kg(q, mr, rd, url, ns)
    \/ \E arxiv_id \in ArxivIds, mr \in MaxRetriesValues, rd \in RetryDelays,
          url \in ApiUrls, ns \in Namespaces :
          call_query_mardi_kg_for_arxivid(arxiv_id, mr, rd, url, ns)
    \/ \E doi \in Dois, mr \in MaxRetriesValues, rd \in RetryDelays,
          url \in ApiUrls, ns \in Namespaces :
          call_query_mardi_kg_for_doi(doi, mr, rd, url, ns)
    \/ kg_for
    \/ \E body \in Payloads : kg_try_ok(body)
    \/ \E cls \in RequestExceptionClasses : kg_try_RequestException(cls)
    \/ \E cls \in OtherExceptionClasses : kg_try_other_exception(cls)
    \/ kg_sleep
    \/ kg_else
    \/ kg_raise
    \/ kg_return
    \/ norm_body_arxivid
    \/ norm_body_doi
    \/ norm_return

Spec == Init /\ [][Next]_vars


-----------------------------------------------------------------------------
(* Reading the log.                                                        *)

is_post(e) == e.op = "post"

is_sleep(e) == e.op = "sleep"

is_post_or_sleep(e) == e.op \in {"post", "sleep"}

\* a print of the reproduction command: a printed line that starts with "curl"
is_curl_print(e) == e.op = "print" /\ occurs_at(e.text, <<"c", "u", "r", "l", " ">>, 1)

posts == SelectSeq(log, is_post)

sleeps == SelectSeq(log, is_sleep)

curl_prints == SelectSeq(log, is_curl_print)

post_failed_transport(e) ==
    /\ "raised" \in DOMAIN e.result
    /\ e.result.raised.cls \in RequestExceptionClasses

post_succeeded(e) == "ok" \in DOMAIN e.result

called == "fn" \in DOMAIN caller

\* the call is over: the client code has its value or its error
ended == pc \in {"done", "raised"}

returned == "returned" \in DOMAIN outcome

raised == "raised" \in DOMAIN outcome

all_attempts_failed_transport ==
    \A n \in 1..Len(posts) : post_failed_transport(posts[n])

-----------------------------------------------------------------------------
(* The retry loop.                                                         *)

\* C1: retry exhaustion.  In a call with max_retries >= 1 in which every
\* attempt so far failed with a requests.RequestException, there are at most
\* max_retries POSTs and nothing has been returned; and when such a call is
\* over, exactly max_retries POSTs were made and the error raised to the
\* client code is the error of the last attempt.
C1_RetryExhaustion ==
    (called /\ max_retries >= 1 /\ all_attempts_failed_transport) =>
        /\ Len(posts) <= max_retries
        /\ ~returned
        /\ pc # "done"
        /\ ended =>
            /\ Len(posts) = max_retries
            /\ outcome = [raised |-> posts[Len(posts)].result.raised]
            /\ posts[Len(posts)].attempt = max_retries

\* C1 witness: three failed attempts whose errors differ, the last one raised
C1_Witness ==
    /\ ended
    /\ max_retries = 3
    /\ Len(posts) = 3
    /\ all_attempts_failed_transport
    /\ posts[1].result.raised.cls # posts[3].result.raised.cls
    /\ outcome = [raised |-> posts[3].result.raised]

\* C2: retry then success.  When attempt k succeeds, attempts 1..k-1 failed
\* with a transport error, k <= max_retries, the successful POST is the last
\* effect of the executor (no POST, sleep or print follows it), data is the
\* body of attempt k, and a direct call of query_mardi_kg ends by returning
\* that body.
C2_RetryThenSuccess ==
    \A k \in 1..Len(posts) :
        post_succeeded(posts[k]) =>
            /\ k = Len(posts)
            /\ k <= max_retries
            /\ posts[k].attempt = k
            /\ \A j \in 1..(k - 1) : post_failed_transport(posts[j])
            /\ log[Len(log)] = posts[k]
            /\ data = posts[k].result.ok
            /\ pc \in {"kg_return", "norm_for", "done"}
            /\ (pc = "done" /\ caller.fn = "query_mardi_kg") =>
                   outcome = [returned |-> posts[k].result.ok]

\* C2 witness: a direct call with max_retries = 3 that failed once, then
\* succeeded on the second attempt and returned a body with a search entry
C2_Witness ==
    /\ pc = "done"
    /\ caller.fn = "query_mardi_kg"
    /\ max_retries = 3
    /\ Len(posts) = 2
    /\ post_failed_transport(posts[1])
    /\ post_succeeded(posts[2])
    /\ outcome = [returned |-> [query |-> [search |-> <<entry_test>>]]]

\* the value of key srsearch of a params dict
srsearch_of(ps) == ps[3].v

\* C3: the reproduction command.  It is in the log exactly once when the
\* else clause has run (the error not yet raised, or raised by exhaustion)
\* and never otherwise, in particular never when a payload was obtained; it
\* is the last effect of the call, directly after the banner line that
\* follows the last failed attempt; and it is the command of the URL and
\* the parameter mapping (with srsearch = query) that every attempt sent.
C3_DiagnosticOnce ==
    /\ Len(curl_prints) =
           IF pc = "kg_raise" \/ (pc = "raised" /\ Len(posts) = max_retries
                                  /\ all_attempts_failed_transport)
           THEN 1 ELSE 0
    /\ (called /\ \E n \in 1..Len(posts) : post_succeeded(posts[n])) =>
           Len(curl_prints) = 0
    /\ returned => Len(curl_prints) = 0
    /\ Len(curl_prints) = 1 =>
           /\ is_curl_print(log[Len(log)])
           /\ log[Len(log) - 1] = [op |-> "print", text |-> ALL_RETRIES_FAILED]
           /\ max_retries >= 1 =>
                  /\ Len(log) >= 3
                  /\ is_post(log[Len(log) - 2])
                  /\ log[Len(log) - 2].attempt = max_retries
                  /\ post_failed_transport(log[Len(log) - 2])
           /\ \A n \in 1..Len(posts) :
                  /\ curl_prints[1].text =
                         generate_curl_command(posts[n].url, posts[n].data)
                  /\ srsearch_of(posts[n].data) = query

\* C3 witness: an exhausted call with two attempts, the command printed last
C3_Witness ==
    /\ pc = "raised"
    /\ max_retries = 2
    /\ Len(posts) = 2
    /\ Len(curl_prints) = 1
    /\ is_curl_print(log[Len(log)])
    /\ raised /\ outcome.raised.cls \in RequestExceptionClasses

post_or_sleep == SelectSeq(log, is_post_or_sleep)

\* C4: waits.  Every wait lasts retry_delay; attempts and waits alternate,
\* starting with an attempt; and once the loop is left (by break, by
\* exhaustion or by another exception) the last of them is an attempt, so
\* that n attempts come with n - 1 waits.
C4_ConstantDelayBetweenAttempts ==
    /\ \A n \in 1..Len(sleeps) : sleeps[n].secs = retry_delay
    /\ called => retry_delay = caller.retry_delay
    /\ \A n \in 1..Len(post_or_sleep) :
           post_or_sleep[n].op = IF n % 2 = 1 THEN "post" ELSE "sleep"
    /\ pc \in {"kg_return", "kg_else", "kg_raise", "norm_for", "done", "raised"} =>
           /\ Len(posts) = 0 => Len(sleeps) = 0
           /\ Len(posts) >= 1 =>
                  /\ Len(sleeps) = Len(posts) - 1
                  /\ is_post(post_or_sleep[Len(post_or_sleep)])

\* C4 witness: three attempts, two waits of 2 seconds each
C4_Witness ==
    /\ ended
    /\ Len(posts) = 3
    /\ Len(sleeps) = 2
    /\ retry_delay = 2
    /\ sleeps[1].secs = 2 /\ sleeps[2].secs = 2

-----------------------------------------------------------------------------
(* The search strings of the wrappers.                                     *)

\* what the executor was entered with and sends equals the wrapper's arguments
passed_through ==
    /\ max_retries = caller.max_retries
    /\ retry_delay = caller.retry_delay
    /\ api_url = caller.api_url
    /\ namespace = caller.namespace
    /\ \A n \in 1..Len(posts) :
           /\ posts[n].url = caller.api_url
           /\ posts[n].data[4].v = caller.namespace
           /\ srsearch_of(posts[n].data) = query

\* C8: in a call query_mardi_kg_for_arxivid(X, ...) the executor's query is
\* the five characters arXiv, then X, then the five characters MaRDI, and
\* max_retries, retry_delay, api_url and namespace are the wrapper's.
C8_ArxivSearchString ==
    (called /\ caller.fn = "query_mardi_kg_for_arxivid") =>
        /\ Len(query) = Len(caller.arg) + 10
        /\ SubSeq(query, 1, 5) = <<"a", "r", "X", "i", "v">>
        /\ SubSeq(query, 6, 5 + Len(caller.arg)) = caller.arg
        /\ SubSeq(query, 6 + Len(caller.arg), Len(query)) = <<"M", "a", "R", "D", "I">>
        /\ passed_through

\* C8 witness: the id of the tests, sent to a non-default endpoint
C8_Witness ==
    /\ called /\ caller.fn = "query_mardi_kg_for_arxivid"
    /\ caller.arg = <<"2", "1", "0", "4", ".", "0", "6", "1", "7", "5">>
    /\ caller.api_url # DEFAULT_API_URL
    /\ caller.namespace # DEFAULT_NAMESPACE
    /\ caller.max_retries = 2
    /\ Len(posts) = 2
    /\ srsearch_of(posts[2].data) = <<"a", "r", "X", "i", "v", "2", "1", "0", "4", ".", "0", "6", "1", "7", "5", "M", "a", "R", "D", "I">>

\* C9: in a call query_mardi_kg_for_doi(D, ...) the executor's query is a
\* double quote, then doi.org/, then D, then a double quote, and max_retries,
\* retry_delay, api_url and namespace are the wrapper's.
C9_DoiSearchString ==
    (called /\ caller.fn = "query_mardi_kg_for_doi") =>
        /\ Len(query) = Len(caller.arg) + 10
        /\ query[1] = "\""
        /\ SubSeq(query, 2, 9) = <<"d", "o", "i", ".", "o", "r", "g", "/">>
        /\ SubSeq(query, 10, 9 + Len(caller.arg)) = caller.arg
        /\ query[Len(query)] = "\""
        /\ passed_through

\* C9 witness: the DOI of the tests, sent to a non-default endpoint
C9_Witness ==
    /\ called /\ caller.fn = "query_mardi_kg_for_doi"
    /\ caller.arg = <<"1", "0", ".", "1", "0", "0", "7", "/", "s", "4", "0", "3", "0", "5", "-", "0", "1", "8", "-", "0", "2", "1", "0", "-", "x">>
    /\ caller.api_url # DEFAULT_API_URL
    /\ caller.namespace # DEFAULT_NAMESPACE
    /\ caller.max_retries = 2
    /\ Len(posts) = 2
    /\ srsearch_of(posts[2].data) = <<"\"", "d", "o", "i", ".", "o", "r", "g", "/", "1", "0", ".", "1", "0", "0", "7", "/", "s", "4", "0", "3", "0", "5", "-", "0", "1", "8", "-", "0", "2", "1", "0", "-", "x", "\"">>


-----------------------------------------------------------------------------
(* The specifications of the normalizers: the state in which the first     *)
(* attempt of the executor has just succeeded, for a richer set of bodies. *)

\* the state of a wrapper's call in which attempt 1 has answered body
after_first_success(fn, a, body) ==
    /\ pc = "kg_return"
    /\ caller = [fn |-> fn, arg |-> a.arg, max_retries |-> a.max_retries,
                 retry_delay |-> a.retry_delay, api_url |-> a.api_url,
                 namespace |-> a.namespace]
    /\ query = a.query
    /\ max_retries = a.max_retries
    /\ retry_delay = a.retry_delay
    /\ api_url = a.api_url
    /\ namespace = a.namespace
    /\ params = build_params(a.query, a.namespace)
    /\ last_exception = None
    /\ attempt = 1
    /\ data = body
    /\ results = <<>>
    /\ i = 0
    /\ log = << [op |-> "post", url |-> a.api_url,
                 data |-> build_params(a.query, a.namespace),
                 attempt |-> 1, result |-> [ok |-> body]] >>
    /\ outcome = None
    /\ env = None
    /\ frame = None

\* the two calls of the tests, with one attempt allowed
WrapperCalls ==
    { [fn |-> "query_mardi_kg_for_arxivid",
       a |-> [arg |-> <<"2", "1", "0", "4", ".", "0", "6", "1", "7", "5">>] @@
             arxivid_kg_args(<<"2", "1", "0", "4", ".", "0", "6", "1", "7", "5">>, 1, 0, DEFAULT_API_URL,
                             DEFAULT_NAMESPACE)],
      [fn |-> "query_mardi_kg_for_doi",
       a |-> [arg |-> <<"1", "0", ".", "1", "0", "0", "7", "/", "s", "4", "0", "3", "0", "5", "-", "0", "1", "8", "-", "0", "2", "1", "0", "-", "x">>] @@
             doi_kg_args(<<"1", "0", ".", "1", "0", "0", "7", "/", "s", "4", "0", "3", "0", "5", "-", "0", "1", "8", "-", "0", "2", "1", "0", "-", "x">>, 1, 0,
                         DEFAULT_API_URL, DEFAULT_NAMESPACE)] }

title_test == <<"P", "u", "b", "l", "i", "c", "a", "t", "i", "o", "n", ":", "2", "1", "7", "6", "8", "2", "8">>

title_trailing == <<"P", "u", "b", "l", "i", "c", "a", "t", "i", "o", "n", ":", "1", "2", "x">>

title_no_digits == <<"P", "u", "b", "l", "i", "c", "a", "t", "i", "o", "n", ":">>

title_not_at_start == <<"A", " ", "P", "u", "b", "l", "i", "c", "a", "t", "i", "o", "n", ":", "3">>

title_like_qid == <<"Q", "I", "D", "Q", "5">>

snippet_test == <<"I", "n", "t", "r", "o", " ">> \o OPEN_MARK \o <<"Q", "I", "D", "Q", "1", "2", "3">> \o CLOSE_MARK
                \o <<" ", "d", "e", "t", "a", "i", "l", "s">>

snippet_two_ids == <<"Q", "I", "D", "Q", "1", " ", "Q", "I", "D", "Q", "2", "3">>

snippet_split_id == <<"Q", "I", "D">> \o OPEN_MARK \o <<"Q", "4">> \o CLOSE_MARK \o <<"5", ";">>

snippet_no_digits == <<"Q", "I", "D", "Q", " ", "Q", "I", "D", "1", "2", " ", "q", "i", "d", "q", "3">>

snippet_overlap == <<"Q", "I", "D", "Q", "I", "D", "Q", "6">>

snippet_like_title == <<"P", "u", "b", "l", "i", "c", "a", "t", "i", "o", "n", ":", "7">>

\* entries of payload.query.search: with and without title, with and without
\* snippet, the same snippet under several titles and the same title over
\* several snippets
NormEntries ==
    { [title |-> title_test, snippet |-> snippet_test],
      [snippet |-> snippet_test],
      [title |-> title_test],
      [pageid |-> <<"1">>],
      [title |-> title_like_qid, snippet |-> snippet_no_digits],
      [title |-> title_like_qid, snippet |-> snippet_two_ids],
      [title |-> title_test, snippet |-> snippet_two_ids],
      [title |-> title_trailing, snippet |-> snippet_split_id],
      [title |-> title_no_digits, snippet |-> snippet_like_title],
      [snippet |-> snippet_like_title],
      [title |-> title_not_at_start, snippet |-> snippet_overlap],
      [title |-> title_trailing] }

\* the sequences over S of length at most n
SeqUpTo(S, n) == UNION {[1..m -> S] : m \in 0..n}

NormPayloads ==
    {[batchcomplete |-> <<>>], [query |-> [searchinfo |-> <<>>]]}
    \cup {[query |-> [search |-> es]] : es \in SeqUpTo(NormEntries, MaxEntries)}

InitNorm ==
    \E c \in WrapperCalls, body \in NormPayloads : after_first_success(c.fn, c.a, body)

NextNorm ==
    \/ kg_return
    \/ norm_body_arxivid
    \/ norm_body_doi
    \/ norm_return

SpecNorm == InitNorm /\ [][NextNorm]_vars

\* what snippets are put together from: the two markers, each marker cut in
\* two, and plain text
Pieces ==
    { OPEN_MARK, CLOSE_MARK,
      <<"<", "s", "p", "a", "n", " ", "c", "l", "a", "s", "s", "=", "\"", "s", "e", "a", "r">>,
      <<"c", "h", "m", "a", "t", "c", "h", "\"", ">">>,
      <<"<", "/", "s", "p">>, <<"a", "n", ">">>,
      <<"a", " ">> }

CleanSnippets == {join(ps, <<>>) : ps \in SeqUpTo(Pieces, MaxPieces)}

InitClean ==
    \E c \in WrapperCalls, snippet \in CleanSnippets :
        after_first_success(c.fn, c.a,
            [query |-> [search |-> << [title |-> title_test, snippet |-> snippet] >>]])

SpecClean == InitClean /\ [][NextNorm]_vars


-----------------------------------------------------------------------------
(* The normalizers' records.                                               *)

\* the k-th entry of payload.query.search
entry(k) == search_list(data)[k]

\* position p of s lies in an occurrence of marker in s
in_occurrence(s, marker, p) ==
    \E at \in (p - Len(marker) + 1)..p : occurs_at(s, marker, at)

in_marker(s, p) == in_occurrence(s, OPEN_MARK, p) \/ in_occurrence(s, CLOSE_MARK, p)

RECURSIVE kept_from(_, _)
\* the characters of s from position p on that lie in no marker occurrence of s
kept_from(s, p) ==
    IF p > Len(s) THEN <<>>
    ELSE (IF in_marker(s, p) THEN <<>> ELSE <<s[p]>>) \o kept_from(s, p + 1)

\* s with exactly the marker occurrences of s deleted
markers_deleted(s) == kept_from(s, 1)

marker_free(s) == ~contains(s, OPEN_MARK) /\ ~contains(s, CLOSE_MARK)

\* C5 as claimed: for every snippet the cleaned snippet contains neither
\* marker and equals the input with exactly its marker occurrences deleted.
C5_Original ==
    \A k \in 1..Len(results) :
        /\ marker_free(results[k].snippet)
        /\ results[k].snippet = markers_deleted(Get(entry(k), "snippet", <<>>))

\* C5 amended: for every snippet in which deleting the marker occurrences
\* leaves no marker behind (no marker is nested in or split by another), the
\* cleaned snippet of both normalizers contains neither marker and equals the
\* input with exactly its marker occurrences deleted.
C5_CleaningOfUnnestedMarkers ==
    \A k \in 1..Len(results) :
        marker_free(markers_deleted(Get(entry(k), "snippet", <<>>))) =>
            /\ marker_free(results[k].snippet)
            /\ results[k].snippet = markers_deleted(Get(entry(k), "snippet", <<>>))

\* C5 witness: text, an opening and a closing marker; the text alone is left
C5_Witness ==
    /\ caller.fn = "query_mardi_kg_for_doi"
    /\ Len(results) = 1
    /\ entry(1).snippet = <<"a", " ">> \o OPEN_MARK \o CLOSE_MARK
    /\ results[1].snippet = <<"a", " ">>

\* the positions of s at which QIDQ and a digit stand
qid_positions(s) ==
    {at \in 1..Len(s) : /\ at + 4 <= Len(s)
                        /\ SubSeq(s, at, at + 3) = <<"Q", "I", "D", "Q">>
                        /\ s[at + 4] \in Digits}

\* the last position of the run of digits of s that starts at position from
digits_end(s, from) ==
    CHOOSE e \in from..Len(s) :
        /\ \A m \in from..e : s[m] \in Digits
        /\ e = Len(s) \/ s[e + 1] \notin Digits

\* C6: arXiv mode.  The qid of every record is None exactly when the cleaned
\* snippet has no QIDQ<digits> in it, and is otherwise Q followed by the
\* whole run of digits of the first such occurrence; the title has no part.
C6_ArxivIdentifier ==
    caller.fn = "query_mardi_kg_for_arxivid" =>
        \A k \in 1..Len(results) :
            LET s == results[k].snippet
                M == qid_positions(s)
            IN  /\ (results[k].qid = None) <=> (M = {})
                /\ M # {} =>
                       LET at == CHOOSE a \in M : \A b \in M : a <= b
                       IN  results[k].qid =
                               <<"Q">> \o SubSeq(s, at + 4, digits_end(s, at + 4))

\* C6 witness: a title that looks like a QID over a snippet with two ids (the
\* first one wins) and over a snippet with none (no qid)
C6_Witness ==
    /\ caller.fn = "query_mardi_kg_for_arxivid"
    /\ Len(results) = 2
    /\ entry(1) = [title |-> title_like_qid, snippet |-> snippet_two_ids]
    /\ results[1].qid = <<"Q", "1">>
    /\ entry(2) = [title |-> title_like_qid, snippet |-> snippet_no_digits]
    /\ results[2].qid = None

\* t is Publication: followed by one or more digits and nothing else
has_publication_form(t) ==
    /\ Len(t) > 12
    /\ SubSeq(t, 1, 12) = <<"P", "u", "b", "l", "i", "c", "a", "t", "i", "o", "n", ":">>
    /\ \A m \in 13..Len(t) : t[m] \in Digits

\* C7 as claimed: DOI mode.  The qid is Q followed by the digits when the
\* title has the form Publication:<digits>, and None for every other title.
C7_DoiIdentifier ==
    caller.fn = "query_mardi_kg_for_doi" =>
        \A k \in 1..Len(results) :
            LET title == Get(entry(k), "title", NO_TITLE)
            IN  IF has_publication_form(title)
                THEN results[k].qid = <<"Q">> \o SubSeq(title, 13, Len(title))
                ELSE results[k].qid = None

\* C10 as claimed: an entry without title gives title "(no title)", an entry
\* without snippet gives the empty snippet, and in both cases the qid is None.
C10_Original ==
    \A k \in 1..Len(results) :
        /\ "title" \notin DOMAIN entry(k) =>
               results[k].title = NO_TITLE /\ results[k].qid = None
        /\ "snippet" \notin DOMAIN entry(k) =>
               results[k].snippet = <<>> /\ results[k].qid = None

\* C10 amended: nothing is raised and every entry consumed has its record;
\* an entry without title gives title "(no title)", an entry without snippet
\* gives the empty snippet; the qid is None when the missing field is the one
\* the normalizer reads the qid from: the snippet in arXiv mode, the title in
\* DOI mode.
C10_MissingFieldDefaults ==
    /\ ~raised /\ pc # "raised"
    /\ pc \in {"norm_for", "done"} => Len(results) = i
    /\ \A k \in 1..Len(results) :
        /\ "title" \notin DOMAIN entry(k) =>
               /\ results[k].title = NO_TITLE
               /\ caller.fn = "query_mardi_kg_for_doi" => results[k].qid = None
        /\ "snippet" \notin DOMAIN entry(k) =>
               /\ results[k].snippet = <<>>
               /\ caller.fn = "query_mardi_kg_for_arxivid" => results[k].qid = None

\* C10 witness: arXiv mode, an entry without title whose snippet holds a QID,
\* then an entry without snippet
C10_Witness ==
    /\ pc = "done"
    /\ caller.fn = "query_mardi_kg_for_arxivid"
    /\ search_list(data) = <<[snippet |-> snippet_test], [title |-> title_test]>>
    /\ outcome = [returned |->
           << [qid |-> <<"Q", "1", "2", "3">>, title |-> NO_TITLE,
               snippet |-> <<"I", "n", "t", "r", "o", " ", "Q", "I", "D", "Q", "1", "2", "3", " ", "d", "e", "t", "a", "i", "l", "s">>],
              [qid |-> None, title |-> title_test, snippet |-> <<>>] >>]


-----------------------------------------------------------------------------
(* secrets_helper.read_credentials.                                        *)

Whitespace == {" ", "\t", "\n", "\r"}

RECURSIVE lstrip(_)
\* s.lstrip()
lstrip(s) == IF s # <<>> /\ Head(s) \in Whitespace THEN lstrip(Tail(s)) ELSE s

RECURSIVE rstrip(_)
\* s.rstrip()
rstrip(s) ==
    IF s # <<>> /\ s[Len(s)] \in Whitespace THEN rstrip(SubSeq(s, 1, Len(s) - 1)) ELSE s

\* s.strip()
strip(s) == rstrip(lstrip(s))

\* the position of the first "=" of s ("=" in s is required)
first_eq(s) == CHOOSE at \in 1..Len(s) : s[at] = "=" /\ \A b \in 1..(at - 1) : s[b] # "="

\* s.split("=", 1) of a string that holds "="
split_eq(s) == <<SubSeq(s, 1, first_eq(s) - 1), SubSeq(s, first_eq(s) + 1, Len(s))>>

has_eq(s) == \E at \in 1..Len(s) : s[at] = "="

RECURSIVE dict_of_pairs(_)
\* dict(pairs): a later pair with the same key replaces an earlier one
dict_of_pairs(pairs) ==
    IF pairs = <<>> THEN EmptyDict
    ELSE LET last == pairs[Len(pairs)]
         IN  (last[1] :> last[2]) @@ dict_of_pairs(SubSeq(pairs, 1, Len(pairs) - 1))

\* dict(line.strip().split("=", 1) for line in f if "=" in line)
parse_lines(file_lines) ==
    LET with_eq == SelectSeq(file_lines, has_eq)
    IN  dict_of_pairs([n \in 1..Len(with_eq) |-> split_eq(strip(with_eq[n]))])

\* f"{name}-user"
user_key_of(name) == name \o <<"-", "u", "s", "e", "r">>

\* f"{name}-password"
password_key_of(name) == name \o <<"-", "p", "a", "s", "s", "w", "o", "r", "d">>

\* a read_credentials that tries Prefect whatever only_local says
call_read_credentials_prefect_always(name, path, only_local, world) ==
    /\ pc = "idle"
    /\ caller' = [fn |-> "read_credentials", name |-> name, path |-> path,
                  only_local |-> only_local]
    /\ env' = world
    /\ frame' = EmptyDict
    /\ pc' = "rc_load_user"
    /\ UNCHANGED <<kg_vars, last_exception, attempt, data, results, i, log, outcome>>

\* the client code calls read_credentials: Prefect first, unless only_local
call_read_credentials(name, path, only_local, world) ==
    /\ pc = "idle"
    /\ caller' = [fn |-> "read_credentials", name |-> name, path |-> path,
                  only_local |-> only_local]
    /\ env' = world
    /\ frame' = EmptyDict
    /\ pc' = IF ~only_local THEN "rc_load_user" ELSE "rc_open"
    /\ UNCHANGED <<kg_vars, last_exception, attempt, data, results, i, log, outcome>>

\* user = Secret.load(f"{name}-user").get()
rc_load_user ==
    /\ pc = "rc_load_user"
    /\ IF "value" \in DOMAIN env.secret_user
       THEN /\ frame' = ("user" :> env.secret_user.value) @@ frame
            /\ log' = Append(log, [op |-> "Secret.load", key |-> user_key_of(caller.name)])
            /\ pc' = "rc_load_password"
       ELSE /\ log' = log \o << [op |-> "Secret.load", key |-> user_key_of(caller.name)],
                                [op |-> "logger.info", msg |-> "Could not read from Prefect"] >>
            /\ pc' = "rc_open"
            /\ UNCHANGED frame
    /\ UNCHANGED <<caller, kg_vars, last_exception, attempt, data, results, i, outcome, env>>

\* password = Secret.load(f"{name}-password").get(); return both
rc_load_password ==
    /\ pc = "rc_load_password"
    /\ IF "value" \in DOMAIN env.secret_password
       THEN /\ frame' = ("password" :> env.secret_password.value) @@ frame
            /\ log' = Append(log, [op |-> "Secret.load", key |-> password_key_of(caller.name)])
            /\ outcome' = [returned |-> [user |-> frame.user,
                                         password |-> env.secret_password.value]]
            /\ pc' = "done"
       ELSE /\ log' = log \o << [op |-> "Secret.load", key |-> password_key_of(caller.name)],
                                [op |-> "logger.info", msg |-> "Could not read from Prefect"] >>
            /\ pc' = "rc_open"
            /\ UNCHANGED <<frame, outcome>>
    /\ UNCHANGED <<caller, kg_vars, last_exception, attempt, data, results, i, env>>

\* with open(path, encoding="utf-8") as f: lines = dict(...); any exception gives None
rc_open ==
    /\ pc = "rc_open"
    /\ IF "lines" \in DOMAIN env.file
       THEN /\ frame' = ("lines" :> parse_lines(env.file.lines)) @@ frame
            /\ log' = Append(log, [op |-> "open", path |-> caller.path])
            /\ pc' = "rc_keys"
            /\ UNCHANGED outcome
       ELSE /\ log' = log \o << [op |-> "open", path |-> caller.path],
                                [op |-> "logger.warning", msg |-> "Could not get from file"] >>
            /\ outcome' = [returned |-> None]
            /\ pc' = "done"
            /\ UNCHANGED frame
    /\ UNCHANGED <<caller, kg_vars, last_exception, attempt, data, results, i, env>>

\* the return value of the file branch once lines is parsed
file_credentials(lines, user_key, password_key) ==
    IF user_key \notin DOMAIN lines \/ password_key \notin DOMAIN lines
    THEN None
    ELSE [user |-> lines[user_key], password |-> lines[password_key]]

\* a file branch that keeps the user that Prefect gave before its failure
rc_keys_keep_prefect_user ==
    /\ pc = "rc_keys"
    /\ LET r == file_credentials(frame.lines, user_key_of(caller.name),
                                 password_key_of(caller.name))
           kept == IF r = None \/ "user" \notin DOMAIN frame THEN r
                   ELSE [user |-> frame.user, password |-> r.password]
       IN  /\ outcome' = [returned |-> kept]
           /\ log' = IF r = None
                     THEN Append(log, [op |-> "logger.warning", msg |-> "Missing credentials"])
                     ELSE log
    /\ pc' = "done"
    /\ UNCHANGED <<caller, kg_vars, last_exception, attempt, data, results, i, env, frame>>

\* the check of the two keys and the return of the file branch
rc_keys ==
    /\ pc = "rc_keys"
    /\ LET r == file_credentials(frame.lines, user_key_of(caller.name),
                                 password_key_of(caller.name))
       IN  /\ outcome' = [returned |-> r]
           /\ log' = IF r = None
                     THEN Append(log, [op |-> "logger.warning", msg |-> "Missing credentials"])
                     ELSE log
    /\ pc' = "done"
    /\ UNCHANGED <<caller, kg_vars, last_exception, attempt, data, results, i, env, frame>>

\* what Secret.load(...).get() does for one key: a value, or an exception
SecretUserOutcomes == {[value |-> <<"p", "r", "e", "f", "e", "c", "t", "-", "a", "d", "m", "i", "n">>], [raised |-> "ValueError"]}

SecretPasswordOutcomes == {[value |-> <<"p", "r", "e", "f", "e", "c", "t", "-", "p", "w">>], [raised |-> "ValueError"]}

CredentialNames == {<<"l", "a", "k", "e", "f", "s">>}

\* the local file: absent or unreadable (open or the read raises), or its lines
CredentialFiles ==
    { [raised |-> "FileNotFoundError"],
      [raised |-> "UnicodeDecodeError"],
      [lines |-> <<>>],
      [lines |-> <<<<"#", " ", "n", "o", " ", "c", "r", "e", "d", "e", "n", "t", "i", "a", "l", "s", " ", "h", "e", "r", "e", "\n">>, <<"i", "p", "f", "s", "-", "u", "s", "e", "r", "=", "c", "a", "r", "o", "l", "\n">>,
                   <<"i", "p", "f", "s", "-", "p", "a", "s", "s", "w", "o", "r", "d", "=", "x", "\n">>>>],
      [lines |-> <<<<"l", "a", "k", "e", "f", "s", "-", "u", "s", "e", "r", "=", "a", "l", "i", "c", "e", "\n">>>>],
      [lines |-> <<<<"l", "a", "k", "e", "f", "s", "-", "p", "a", "s", "s", "w", "o", "r", "d", "=", "a", "=", "b", "\n">>>>],
      [lines |-> <<<<"l", "a", "k", "e", "f", "s", "-", "u", "s", "e", "r", "=", "a", "l", "i", "c", "e", "\n">>, <<"l", "a", "k", "e", "f", "s", "-", "p", "a", "s", "s", "w", "o", "r", "d", "=", "a", "=", "b", "\n">>>>],
      [lines |-> <<<<" ", " ", "l", "a", "k", "e", "f", "s", "-", "p", "a", "s", "s", "w", "o", "r", "d", "=", "p", "w">>, <<"l", "a", "k", "e", "f", "s", "-", "u", "s", "e", "r", "=", "a", "l", "i", "c", "e", "\n">>,
                   <<"l", "a", "k", "e", "f", "s", "-", "u", "s", "e", "r", "=", "b", "o", "b", " ", "\n">>>>],
      [lines |-> <<<<"l", "a", "k", "e", "f", "s", "-", "u", "s", "e", "r", " ", "=", "a", "l", "i", "c", "e", "\n">>, <<"l", "a", "k", "e", "f", "s", "-", "p", "a", "s", "s", "w", "o", "r", "d", "=", "p", "w", "\n">>>>] }

Worlds ==
    [secret_user : SecretUserOutcomes, secret_password : SecretPasswordOutcomes,
     file : CredentialFiles]

NextCred ==
    \/ \E name \in CredentialNames, only_local \in BOOLEAN, world \in Worlds :
          call_read_credentials(name, <<"s", "e", "c", "r", "e", "t", "s", ".", "c", "o", "n", "f">>, only_local, world)
    \/ rc_load_user
    \/ rc_load_password
    \/ rc_open
    \/ rc_keys

SpecCred == Init /\ [][NextCred]_vars

-----------------------------------------------------------------------------
(* Claims about read_credentials.                                          *)

is_secret_load(e) == e.op = "Secret.load"

is_open(e) == e.op = "open"

secret_loads == SelectSeq(log, is_secret_load)

opens == SelectSeq(log, is_open)

read_credentials_called == called /\ caller.fn = "read_credentials"

\* both lookups of the secret store give a value
store_has_both == "value" \in DOMAIN env.secret_user /\ "value" \in DOMAIN env.secret_password

\* line n of the file gives v to key: stripped, it reads key=v, and no later
\* line of the file gives the key a value
line_gives(file_lines, n, key, v) ==
    /\ strip(file_lines[n]) = key \o <<"=">> \o v
    /\ \A m \in (n + 1)..Len(file_lines) :
           ~occurs_at(strip(file_lines[m]), key \o <<"=">>, 1)

\* the file is readable and gives v to key
file_gives(key, v) ==
    /\ "lines" \in DOMAIN env.file
    /\ \E n \in 1..Len(env.file.lines) : line_gives(env.file.lines, n, key, v)

\* the file is readable and gives key some value
file_has(key) ==
    /\ "lines" \in DOMAIN env.file
    /\ \E n \in 1..Len(env.file.lines) : occurs_at(strip(env.file.lines[n]), key \o <<"=">>, 1)

\* C11: both or nothing.  A call of read_credentials never raises, and what
\* it returns is None or a record of exactly user and password, both from
\* the secret store (which then gave both, in a call without only_local) or
\* both from the file (which then holds both keys); a key missing in the
\* file, a missing or unreadable file, give None.
C11_BothOrNothing ==
    read_credentials_called =>
        /\ pc # "raised"
        /\ ~raised
        /\ ended =>
              /\ returned
              /\ \/ outcome.returned = None
                 \/ /\ DOMAIN outcome.returned = {"user", "password"}
                    /\ \/ /\ ~caller.only_local
                          /\ store_has_both
                          /\ outcome.returned.user = env.secret_user.value
                          /\ outcome.returned.password = env.secret_password.value
                       \/ /\ file_gives(user_key_of(caller.name), outcome.returned.user)
                          /\ file_gives(password_key_of(caller.name),
                                        outcome.returned.password)
              /\ (~(~caller.only_local /\ store_has_both)
                  /\ ~(file_has(user_key_of(caller.name))
                       /\ file_has(password_key_of(caller.name))))
                 => outcome.returned = None

\* the secret store gave the user and failed on the password, the file holds
\* both keys, and the call returned the file's pair
C11_Witness ==
    /\ read_credentials_called
    /\ pc = "done"
    /\ "value" \in DOMAIN env.secret_user
    /\ "raised" \in DOMAIN env.secret_password
    /\ "user" \in DOMAIN frame
    /\ frame.user = env.secret_user.value
    /\ outcome.returned # None
    /\ outcome.returned.user # env.secret_user.value
    /\ file_gives(user_key_of(caller.name), outcome.returned.user)

\* C12: provider ordering.  With only_local the secret store is never
\* contacted.  Without it the first thing the call does is the lookup of the
\* user secret, the password lookup follows only a user lookup that gave a
\* value, and the file is opened only after a lookup has failed: when both
\* lookups give a value the call ends with their values and no open of the
\* file, and when one fails the call has opened the file, once, by its end.
C12_ProviderOrdering ==
    read_credentials_called =>
        /\ caller.only_local => secret_loads = <<>>
        /\ Len(opens) <= 1
        /\ \A n \in 1..Len(opens) : opens[n].path = caller.path
        /\ ~caller.only_local =>
              /\ log # <<>> =>
                    /\ is_secret_load(log[1])
                    /\ log[1].key = user_key_of(caller.name)
              /\ Len(secret_loads) <= 2
              /\ Len(secret_loads) = 2 =>
                    /\ secret_loads[2].key = password_key_of(caller.name)
                    /\ "value" \in DOMAIN env.secret_user
              /\ \A n \in 1..Len(log) : is_open(log[n]) =>
                    /\ ~store_has_both
                    /\ \A m \in 1..Len(log) : is_secret_load(log[m]) => m < n
              /\ (ended /\ store_has_both) =>
                    /\ opens = <<>>
                    /\ outcome = [returned |-> [user |-> env.secret_user.value,
                                                password |-> env.secret_password.value]]
              /\ (ended /\ ~store_has_both) => Len(opens) = 1
        /\ (ended /\ caller.only_local) => Len(opens) = 1

\* a call with only_local, in a world whose secret store holds both values,
\* ended with the pair of the file
C12_Witness ==
    /\ read_credentials_called
    /\ pc = "done"
    /\ caller.only_local
    /\ store_has_both
    /\ Len(opens) = 1
    /\ outcome.returned # None

-----------------------------------------------------------------------------
(* More claims about the executor and its wrappers.                        *)

\* the mapping a params dict stands for
as_mapping(ps) ==
    [key \in {ps[n].k : n \in 1..Len(ps)} |->
        ps[CHOOSE n \in 1..Len(ps) :
               ps[n].k = key /\ \A m \in (n + 1)..Len(ps) : ps[m].k # key].v]

\* {action: "query", list: "search", srsearch: q, srnamespace: ns, format: "json"}
request_mapping(q, ns) ==
    (<<"a", "c", "t", "i", "o", "n">> :> <<"q", "u", "e", "r", "y">>)
    @@ (<<"l", "i", "s", "t">> :> <<"s", "e", "a", "r", "c", "h">>)
    @@ (<<"s", "r", "s", "e", "a", "r", "c", "h">> :> q)
    @@ (<<"s", "r", "n", "a", "m", "e", "s", "p", "a", "c", "e">> :> ns)
    @@ (<<"f", "o", "r", "m", "a", "t">> :> <<"j", "s", "o", "n">>)

\* C16: one request, repeated.  The n-th POST of a call is the POST of
\* attempt n (one POST per attempt), it goes to the endpoint of the call, and
\* its parameters are the mapping of action, list, srsearch, srnamespace and
\* format built from the query and the namespace of the call, with its five
\* keys and no other; so all POSTs of a call have one endpoint and one
\* parameter mapping.
C16_SameRequestEveryAttempt ==
    called =>
        /\ Len(posts) = IF pc = "kg_try" THEN attempt - 1 ELSE attempt
        /\ \A n \in 1..Len(posts) :
              /\ posts[n].attempt = n
              /\ posts[n].url = api_url
              /\ Len(posts[n].data) = 5
              /\ as_mapping(posts[n].data) = request_mapping(query, namespace)
              /\ posts[n].url = posts[1].url
              /\ posts[n].data = posts[1].data

\* three POSTs of one call, with a namespace and an endpoint that are not the defaults
C16_Witness ==
    /\ called
    /\ Len(posts) = 3
    /\ Len(sleeps) = 2
    /\ namespace # DEFAULT_NAMESPACE
    /\ api_url # DEFAULT_API_URL
    /\ posts[3].data = posts[1].data

wrapper_called ==
    called /\ caller.fn \in {"query_mardi_kg_for_arxivid", "query_mardi_kg_for_doi"}

no_attempt_succeeded == \A n \in 1..Len(posts) : ~post_succeeded(posts[n])

\* C17: no result from a failed query.  A call of a normalizer in which no
\* attempt has succeeded has returned nothing, and when it is over it has
\* raised: the error of the last attempt when there was an attempt, which
\* after max_retries failed attempts is the error the executor re-raises.
\* A normalizer that returns a list has had a successful attempt.
C17_WrappersPropagate ==
    wrapper_called =>
        /\ no_attempt_succeeded =>
              /\ ~returned
              /\ pc # "done"
              /\ ended =>
                    /\ pc = "raised"
                    /\ raised
                    /\ posts # <<>> => outcome.raised = posts[Len(posts)].result.raised
        /\ returned => ~no_attempt_succeeded

\* a normalizer call with two attempts, both failed with a transport error, is over
C17_Witness ==
    /\ wrapper_called
    /\ ended
    /\ max_retries = 2
    /\ Len(posts) = 2
    /\ all_attempts_failed_transport
    /\ outcome = [raised |-> posts[2].result.raised]

post_failed_other(e) ==
    /\ "raised" \in DOMAIN e.result
    /\ e.result.raised.cls \notin RequestExceptionClasses

\* C19: only transport errors are retried.  An attempt that fails with an
\* exception that is no requests.RequestException is the last thing the call
\* does: no POST, wait or print follows it in the log, no reproduction command
\* has been printed, and the call is over, having raised that exception.
C19_OtherExceptionsPropagate ==
    called =>
        \A n \in 1..Len(log) :
            (is_post(log[n]) /\ post_failed_other(log[n])) =>
                /\ n = Len(log)
                /\ curl_prints = <<>>
                /\ pc = "raised"
                /\ outcome = [raised |-> log[n].result.raised]
                /\ Len(sleeps) = Len(posts) - 1

\* the first attempt of three failed with a transport error, the second with
\* another exception, and the call is over with one attempt left
C19_Witness ==
    /\ called
    /\ max_retries = 3
    /\ Len(posts) = 2
    /\ post_failed_transport(posts[1])
    /\ post_failed_other(posts[2])
    /\ pc = "raised"

\* C20: how a call of the executor ends.  A call in which no attempt failed
\* with anything but a transport error ends by returning the payload of a
\* successful attempt or by raising the transport error of one of its
\* attempts; with max_retries < 1 it makes no POST and still ends so.
C20_EndsWithPayloadOrTransportError ==
    (called /\ caller.fn = "query_mardi_kg" /\ ended
            /\ \A n \in 1..Len(posts) : ~post_failed_other(posts[n])) =>
        /\ max_retries < 1 => posts = <<>>
        /\ \/ /\ returned
              /\ \E n \in 1..Len(posts) :
                     /\ post_succeeded(posts[n])
                     /\ outcome.returned = posts[n].result.ok
           \/ /\ raised
              /\ outcome.raised.cls \in RequestExceptionClasses
              /\ \E n \in 1..Len(posts) :
                     /\ post_failed_transport(posts[n])
                     /\ outcome.raised = posts[n].result.raised

-----------------------------------------------------------------------------
(* The body requests.post(api_url, data=params) sends, and the curl command. *)

\* the characters urllib.parse.quote_plus leaves as they are
UrlSafeChars == Letters \cup Digits \cup {"_", ".", "-", "~"}

\* quote_plus of one ASCII character
quote_plus_char(c) ==
    IF c \in UrlSafeChars THEN <<c>>
    ELSE IF c = " " THEN <<"+">>
    ELSE CASE c = "!" -> <<"%", "2", "1">>
      [] c = "\"" -> <<"%", "2", "2">>
      [] c = "#" -> <<"%", "2", "3">>
      [] c = "$" -> <<"%", "2", "4">>
      [] c = "%" -> <<"%", "2", "5">>
      [] c = "&" -> <<"%", "2", "6">>
      [] c = "'" -> <<"%", "2", "7">>
      [] c = "(" -> <<"%", "2", "8">>
      [] c = ")" -> <<"%", "2", "9">>
      [] c = "*" -> <<"%", "2", "A">>
      [] c = "+" -> <<"%", "2", "B">>
      [] c = "," -> <<"%", "2", "C">>
      [] c = "/" -> <<"%", "2", "F">>
      [] c = ":" -> <<"%", "3", "A">>
      [] c = ";" -> <<"%", "3", "B">>
      [] c = "<" -> <<"%", "3", "C">>
      [] c = "=" -> <<"%", "3", "D">>
      [] c = ">" -> <<"%", "3", "E">>
      [] c = "?" -> <<"%", "3", "F">>
      [] c = "@" -> <<"%", "4", "0">>
      [] c = "[" -> <<"%", "5", "B">>
      [] c = "]" -> <<"%", "5", "D">>
      [] c = "{" -> <<"%", "7", "B">>
      [] c = "|" -> <<"%", "7", "C">>
      [] c = "}" -> <<"%", "7", "D">>

RECURSIVE quote_plus(_)
\* urllib.parse.quote_plus(s)
quote_plus(s) == IF s = <<>> THEN <<>> ELSE quote_plus_char(Head(s)) \o quote_plus(Tail(s))

\* urlencode(params): the form body of requests.post(url, data=params)
urlencode(ps) ==
    join([n \in 1..Len(ps) |-> quote_plus(ps[n].k) \o <<"=">> \o quote_plus(ps[n].v)],
         <<"&">>)

\* C14: the reproduction command.  Every printed curl command is
\* curl -X POST <url> -d <body>, where <url> is the endpoint of the call and
\* <body> the URL-encoded form body that requests.post(api_url, data=params)
\* sends, each quoted as one shell word.
C14_CurlBodyIsFormEncoded ==
    \A n \in 1..Len(curl_prints) :
        curl_prints[n].text =
            <<"c", "u", "r", "l", " ", "-", "X", " ", "P", "O", "S", "T", " ">>
            \o shlex_quote(api_url)
            \o <<" ", "-", "d", " ">>
            \o shlex_quote(urlencode(params))

-----------------------------------------------------------------------------
(* The list a normalizer returns.                                          *)

\* the payload has its 'query' key and, under it, its 'search' key
has_search_list == "query" \in DOMAIN data /\ "search" \in DOMAIN data.query

\* C18: one record per entry, in order.  In the loop of a normalizer the
\* records built so far are those of the first i entries: record k has
\* exactly the keys qid, title and snippet, its title is the title of entry k
\* (or "(no title)") and its snippet the snippet of entry k when that holds
\* no marker.  The list returned has one record for every entry.  A payload
\* without 'query' or without 'search' gives the empty list.  Nothing is
\* raised.
C18_OneRecordPerEntry ==
    (wrapper_called /\ pc \in {"norm_for", "done"}) =>
        /\ ~raised
        /\ Len(results) = i
        /\ i <= Len(search_list(data))
        /\ \A k \in 1..Len(results) :
              /\ DOMAIN results[k] = {"qid", "title", "snippet"}
              /\ results[k].title = Get(entry(k), "title", NO_TITLE)
              /\ ("snippet" \in DOMAIN entry(k) /\ marker_free(entry(k).snippet)) =>
                     results[k].snippet = entry(k).snippet
        /\ pc = "done" =>
              /\ outcome = [returned |-> results]
              /\ Len(outcome.returned) = Len(search_list(data))
              /\ ~has_search_list => outcome.returned = <<>>

\* a normalizer returned two records for two entries whose titles differ
C18_Witness ==
    /\ wrapper_called
    /\ pc = "done"
    /\ has_search_list
    /\ Len(data.query.search) = 2
    /\ Len(outcome.returned) = 2
    /\ outcome.returned[1].title # outcome.returned[2].title
    /\ outcome.returned[1].title = Get(data.query.search[1], "title", NO_TITLE)

-----------------------------------------------------------------------------
(* ipfs_client.IPFSClient and lake_client.LakeClient: the storage wrappers. *)

\* c.lower() of one character
lower_char(c) ==
    CASE c = "A" -> "a"
      [] c = "B" -> "b"
      [] c = "C" -> "c"
      [] c = "D" -> "d"
      [] c = "E" -> "e"
      [] c = "F" -> "f"
      [] c = "G" -> "g"
      [] c = "H" -> "h"
      [] c = "I" -> "i"
      [] c = "J" -> "j"
      [] c = "K" -> "k"
      [] c = "L" -> "l"
      [] c = "M" -> "m"
      [] c = "N" -> "n"
      [] c = "O" -> "o"
      [] c = "P" -> "p"
      [] c = "Q" -> "q"
      [] c = "R" -> "r"
      [] c = "S" -> "s"
      [] c = "T" -> "t"
      [] c = "U" -> "u"
      [] c = "V" -> "v"
      [] c = "W" -> "w"
      [] c = "X" -> "x"
      [] c = "Y" -> "y"
      [] c = "Z" -> "z"
      [] OTHER -> c

\* s.lower()
lower(s) == [n \in 1..Len(s) |-> lower_char(s[n])]

DOES_NOT_EXIST == <<"d", "o", "e", "s", " ", "n", "o", "t", " ", "e", "x", "i", "s", "t">>

FILE_ALREADY_EXISTS == <<"f", "i", "l", "e", " ", "a", "l", "r", "e", "a", "d", "y", " ", "e", "x", "i", "s", "t", "s">>

COMMIT_NO_CHANGES == <<"c", "o", "m", "m", "i", "t", ":", " ", "n", "o", " ", "c", "h", "a", "n", "g", "e", "s">>

\* the operations that are one try block ending in `except Exception` and
\* return True, or False from the except clause
BoolOps ==
    {"download_file", "pin", "unpin", "run_gc", "mkdir_mfs", "download_by_tag",
     "health_check", "file_exists"}

\* the operations that are one try block ending in `except Exception` and
\* return what the server sent, or None from the except clause
ValueOps == {"add_file", "list_pins", "list_local_refs", "list_tags", "load_file",
             "list_objects"}

SimpleOps == BoolOps \cup ValueOps

\* the value the except clause returns
sentinel_of(op) == IF op \in BoolOps THEN FALSE ELSE None

\* what such an operation returns when nothing in its try block raises
value_of(op, reply) == IF op \in BoolOps THEN TRUE ELSE reply.ok

\* try: ... return value / except Exception: return the sentinel
simple_outcome(op, reply) ==
    IF "ok" \in DOMAIN reply
    THEN [returned |-> value_of(op, reply)]
    ELSE [returned |-> sentinel_of(op)]

\* an operation of SimpleOps is called and runs to its end
call_simple(op, reply) ==
    /\ pc = "idle"
    /\ caller' = [fn |-> op]
    /\ log' = Append(log, [op |-> "request", fn |-> op, reply |-> reply])
    /\ outcome' = simple_outcome(op, reply)
    /\ pc' = "done"
    /\ UNCHANGED <<kg_vars, last_exception, attempt, data, results, i, env, frame>>

\* remove_mfs_path that reports a path that does not exist as a failure
remove_mfs_path_outcome_strict(reply) ==
    IF "ok" \in DOMAIN reply THEN [returned |-> TRUE]
    ELSE IF reply.raised = "HTTPError" THEN [returned |-> FALSE]
    ELSE [raised |-> [cls |-> reply.raised]]

\* remove_mfs_path: True, or the except requests.HTTPError clause, or the
\* exception itself when no clause matches
remove_mfs_path_outcome(reply) ==
    IF "ok" \in DOMAIN reply THEN [returned |-> TRUE]
    ELSE IF reply.raised = "HTTPError"
         THEN IF reply.status = 500 /\ contains(reply.text, DOES_NOT_EXIST)
              THEN [returned |-> TRUE]
              ELSE [returned |-> FALSE]
    ELSE [raised |-> [cls |-> reply.raised]]

\* remove_mfs_path is called and runs to its end
call_remove_mfs_path(mfs_path, reply) ==
    /\ pc = "idle"
    /\ caller' = [fn |-> "remove_mfs_path", mfs_path |-> mfs_path]
    /\ log' = Append(log, [op |-> "request", fn |-> "files/rm", arg |-> mfs_path,
                           reply |-> reply])
    /\ outcome' = remove_mfs_path_outcome(reply)
    /\ pc' = IF "raised" \in DOMAIN remove_mfs_path_outcome(reply) THEN "raised" ELSE "done"
    /\ UNCHANGED <<kg_vars, last_exception, attempt, data, results, i, env, frame>>

RECURSIVE strip_slashes_left(_)
strip_slashes_left(s) == IF s # <<>> /\ Head(s) = "/" THEN strip_slashes_left(Tail(s)) ELSE s

RECURSIVE strip_slashes_right(_)
strip_slashes_right(s) ==
    IF s # <<>> /\ s[Len(s)] = "/" THEN strip_slashes_right(SubSeq(s, 1, Len(s) - 1)) ELSE s

\* s.strip("/")
strip_slashes(s) == strip_slashes_right(strip_slashes_left(s))

\* "/".join(s.split("/")[:-1]): s up to its last "/", without it
before_last_slash(s) ==
    IF \E at \in 1..Len(s) : s[at] = "/"
    THEN LET last == CHOOSE at \in 1..Len(s) :
                         s[at] = "/" /\ \A b \in (at + 1)..Len(s) : s[b] # "/"
         IN  SubSeq(s, 1, last - 1)
    ELSE <<>>

\* "/" + "/".join(mfs_path.strip("/").split("/")[:-1])
parent_dir_of(mfs_path) == <<"/">> \o before_last_slash(strip_slashes(mfs_path))

\* tag_file is called
call_tag_file(cid, mfs_path, overwrite) ==
    /\ pc = "idle"
    /\ caller' = [fn |-> "tag_file", cid |-> cid, mfs_path |-> mfs_path,
                  overwrite |-> overwrite]
    /\ frame' = [parent_dir |-> parent_dir_of(mfs_path)]
    /\ pc' = IF parent_dir_of(mfs_path) # <<>> THEN "tf_mkdir"
             ELSE IF overwrite THEN "tf_remove" ELSE "tf_cp"
    /\ UNCHANGED <<kg_vars, last_exception, attempt, data, results, i, log, outcome, env>>

\* a tag_file that gives up when mkdir_mfs reports False
tf_mkdir_checked(reply) ==
    /\ pc = "tf_mkdir"
    /\ log' = Append(log, [op |-> "request", fn |-> "files/mkdir",
                           arg |-> frame.parent_dir, reply |-> reply,
                           result |-> simple_outcome("mkdir_mfs", reply)])
    /\ IF "ok" \in DOMAIN reply
       THEN outcome' = outcome /\ pc' = IF caller.overwrite THEN "tf_remove" ELSE "tf_cp"
       ELSE outcome' = [returned |-> FALSE] /\ pc' = "done"
    /\ UNCHANGED <<caller, kg_vars, last_exception, attempt, data, results, i, env, frame>>

\* self.mkdir_mfs(parent_dir): its result is dropped
tf_mkdir(reply) ==
    /\ pc = "tf_mkdir"
    /\ log' = Append(log, [op |-> "request", fn |-> "files/mkdir",
                           arg |-> frame.parent_dir, reply |-> reply,
                           result |-> simple_outcome("mkdir_mfs", reply)])
    /\ pc' = IF caller.overwrite THEN "tf_remove" ELSE "tf_cp"
    /\ UNCHANGED <<caller, kg_vars, last_exception, attempt, data, results, i, outcome,
                   env, frame>>

\* self.remove_mfs_path(mfs_path): its result is dropped, its exception is
\* caught by `except Exception` of tag_file
tf_remove(reply) ==
    /\ pc = "tf_remove"
    /\ log' = Append(log, [op |-> "request", fn |-> "files/rm", arg |-> caller.mfs_path,
                           reply |-> reply])
    /\ IF "raised" \in DOMAIN remove_mfs_path_outcome(reply)
       THEN outcome' = [returned |-> FALSE] /\ pc' = "done"
       ELSE outcome' = outcome /\ pc' = "tf_cp"
    /\ UNCHANGED <<caller, kg_vars, last_exception, attempt, data, results, i, env, frame>>

\* the files/cp request of tag_file and the three ways its try block ends
tag_file_cp_outcome(reply) ==
    IF "ok" \in DOMAIN reply THEN [returned |-> TRUE]
    ELSE IF reply.raised = "HTTPError"
         THEN IF reply.status = 500 /\ contains(lower(reply.text), FILE_ALREADY_EXISTS)
              THEN [returned |-> FALSE]
              ELSE [returned |-> FALSE]
    ELSE [returned |-> FALSE]

\* what tag_file logs for the reply to files/cp
tag_file_cp_logged(reply) ==
    IF "ok" \in DOMAIN reply THEN [op |-> "logger.info", msg |-> "Tagged CID"]
    ELSE IF reply.raised = "HTTPError"
         THEN IF reply.status = 500 /\ contains(lower(reply.text), FILE_ALREADY_EXISTS)
              THEN [op |-> "logger.warning", msg |-> "already exists"]
              ELSE [op |-> "logger.error", msg |-> "Error tagging CID in MFS"]
    ELSE [op |-> "logger.error", msg |-> "Unexpected error tagging CID"]

\* requests.post(url_cp, ...); res.raise_for_status(); return
tf_cp(reply) ==
    /\ pc = "tf_cp"
    /\ log' = log \o << [op |-> "request", fn |-> "files/cp", arg |-> caller.mfs_path,
                         reply |-> reply],
                        tag_file_cp_logged(reply) >>
    /\ outcome' = tag_file_cp_outcome(reply)
    /\ pc' = "done"
    /\ UNCHANGED <<caller, kg_vars, last_exception, attempt, data, results, i, env, frame>>

\* commit_to_lakefs: the commit id, None for "no changes", or the exception re-raised
commit_to_lakefs_outcome(reply) ==
    IF "ok" \in DOMAIN reply THEN [returned |-> reply.ok]
    ELSE IF reply.raised = "ApiException"
         THEN IF reply.status = 400 /\ contains(reply.body, COMMIT_NO_CHANGES)
              THEN [returned |-> None]
              ELSE [raised |-> [cls |-> reply.raised]]
    ELSE [raised |-> [cls |-> reply.raised]]

\* commit_to_lakefs is called and runs to its end
call_commit_to_lakefs(reply) ==
    /\ pc = "idle"
    /\ caller' = [fn |-> "commit_to_lakefs"]
    /\ log' = Append(log, [op |-> "request", fn |-> "commit", reply |-> reply])
    /\ outcome' = commit_to_lakefs_outcome(reply)
    /\ pc' = IF "raised" \in DOMAIN commit_to_lakefs_outcome(reply) THEN "raised" ELSE "done"
    /\ UNCHANGED <<kg_vars, last_exception, attempt, data, results, i, env, frame>>

\* sync_repo_to_local: None, or the exception of its try block re-raised
sync_repo_to_local_outcome(reply) ==
    IF "ok" \in DOMAIN reply THEN [returned |-> None]
    ELSE [raised |-> [cls |-> reply.raised]]

\* sync_repo_to_local is called and runs to its end
call_sync_repo_to_local(reply) ==
    /\ pc = "idle"
    /\ caller' = [fn |-> "sync_repo_to_local"]
    /\ log' = Append(log, [op |-> "request", fn |-> "list_objects_v2", reply |-> reply])
    /\ outcome' = sync_repo_to_local_outcome(reply)
    /\ pc' = IF "raised" \in DOMAIN sync_repo_to_local_outcome(reply) THEN "raised" ELSE "done"
    /\ UNCHANGED <<kg_vars, last_exception, attempt, data, results, i, env, frame>>

\* upload_to_lakefs or upload_to_lakefs_boto is called: results = []
call_upload(fn, file_paths, as_main) ==
    /\ pc = "idle"
    /\ caller' = [fn |-> fn, file_paths |-> file_paths]
    /\ env' = [as_main |-> as_main]
    /\ frame' = [results |-> <<>>]
    /\ pc' = "upload_for"
    /\ UNCHANGED <<kg_vars, last_exception, attempt, data, results, i, log, outcome>>

\* an upload_to_lakefs that returns at the first file that fails
upload_to_lakefs_file_stops(reply) ==
    /\ pc = "upload_for"
    /\ caller.fn = "upload_to_lakefs"
    /\ Len(frame.results) < Len(caller.file_paths)
    /\ log' = Append(log, [op |-> "request", fn |-> "put_object",
                           arg |-> caller.file_paths[Len(frame.results) + 1],
                           reply |-> reply])
    /\ frame' = [results |-> Append(frame.results, IF "ok" \in DOMAIN reply THEN 200 ELSE -1)]
    /\ IF "ok" \in DOMAIN reply
       THEN UNCHANGED <<pc, outcome>>
       ELSE outcome' = [returned |-> Append(frame.results, -1)] /\ pc' = "done"
    /\ UNCHANGED <<caller, kg_vars, last_exception, attempt, data, results, i, env>>

\* one iteration of the loop of upload_to_lakefs: the whole body is in the try
upload_to_lakefs_file(reply) ==
    /\ pc = "upload_for"
    /\ caller.fn = "upload_to_lakefs"
    /\ Len(frame.results) < Len(caller.file_paths)
    /\ log' = Append(log, [op |-> "request", fn |-> "put_object",
                           arg |-> caller.file_paths[Len(frame.results) + 1],
                           reply |-> reply])
    /\ frame' = [results |-> Append(frame.results, IF "ok" \in DOMAIN reply THEN 200 ELSE -1)]
    /\ UNCHANGED <<pc, caller, kg_vars, last_exception, attempt, data, results, i, outcome,
                   env>>

\* one iteration of the loop of upload_to_lakefs_boto: open() and the print
\* that reads the global `repo` are outside the try, put_object is inside
upload_to_lakefs_boto_file(reply) ==
    /\ pc = "upload_for"
    /\ caller.fn = "upload_to_lakefs_boto"
    /\ Len(frame.results) < Len(caller.file_paths)
    /\ log' = Append(log, [op |-> "request", fn |-> "put_object",
                           arg |-> caller.file_paths[Len(frame.results) + 1],
                           reply |-> reply])
    /\ IF "raised" \in DOMAIN reply /\ reply.raised = "OSError"
       THEN /\ outcome' = [raised |-> [cls |-> "OSError"]]
            /\ pc' = "raised"
            /\ UNCHANGED frame
       ELSE IF ~env.as_main
       THEN /\ outcome' = [raised |-> [cls |-> "NameError"]]
            /\ pc' = "raised"
            /\ UNCHANGED frame
       ELSE /\ frame' = [results |-> Append(frame.results,
                                            IF "ok" \in DOMAIN reply THEN reply.ok ELSE -1)]
            /\ UNCHANGED <<pc, outcome>>
    /\ UNCHANGED <<caller, kg_vars, last_exception, attempt, data, results, i, env>>

\* return results
upload_return ==
    /\ pc = "upload_for"
    /\ Len(frame.results) = Len(caller.file_paths)
    /\ outcome' = [returned |-> frame.results]
    /\ pc' = "done"
    /\ UNCHANGED <<caller, kg_vars, last_exception, attempt, data, results, i, log, env,
                   frame>>

MaxFiles == 2

\* what an HTTP call to the IPFS node does: a response that passes
\* raise_for_status, an error status, or no response at all
HttpTexts ==
    { <<"f", "i", "l", "e", " ", "d", "o", "e", "s", " ", "n", "o", "t", " ", "e", "x", "i", "s", "t">>,
      <<"c", "p", ":", " ", "F", "i", "l", "e", " ", "A", "l", "r", "e", "a", "d", "y", " ", "E", "x", "i", "s", "t", "s">>,
      <<"i", "n", "t", "e", "r", "n", "a", "l", " ", "e", "r", "r", "o", "r">> }

HttpReplies ==
    {[ok |-> <<"Q", "m", "C", "i", "d">>]}
    \cup [raised : {"HTTPError"}, status : {404, 500}, text : HttpTexts]
    \cup {[raised |-> "ConnectionError"], [raised |-> "OSError"]}

\* what a call of the lakeFS API does
ApiBodies == {<<"c", "o", "m", "m", "i", "t", ":", " ", "n", "o", " ", "c", "h", "a", "n", "g", "e", "s">>, <<"b", "r", "a", "n", "c", "h", " ", "n", "o", "t", " ", "f", "o", "u", "n", "d">>}

ApiReplies ==
    {[ok |-> <<"c", "0", "f", "f", "e", "e">>]}
    \cup [raised : {"ApiException"}, status : {400, 404}, body : ApiBodies]
    \cup {[raised |-> "MaxRetryError"]}

\* what open() and put_object do for one file
S3Replies == {[ok |-> 200], [raised |-> "OSError"], [raised |-> "ClientError"]}

LakeOps == {"health_check", "file_exists", "load_file", "list_objects"}

MfsPaths == {<<"/", "t", "a", "g", "s", "/", "a", ".", "t", "x", "t">>, <<"a", ".", "t", "x", "t">>}

FilePaths == {<<"a", ".", "d", "b">>, <<"b", ".", "d", "b">>}

NextStore ==
    \/ \E op \in SimpleOps \ LakeOps, reply \in HttpReplies : call_simple(op, reply)
    \/ \E op \in LakeOps, reply \in ApiReplies : call_simple(op, reply)
    \/ \E mfs_path \in MfsPaths, reply \in HttpReplies : call_remove_mfs_path(mfs_path, reply)
    \/ \E mfs_path \in MfsPaths, overwrite \in BOOLEAN :
          call_tag_file(<<"Q", "m", "C", "i", "d">>, mfs_path, overwrite)
    \/ \E reply \in HttpReplies : tf_mkdir(reply)
    \/ \E reply \in HttpReplies : tf_remove(reply)
    \/ \E reply \in HttpReplies : tf_cp(reply)
    \/ \E reply \in ApiReplies : call_commit_to_lakefs(reply)
    \/ \E reply \in S3Replies : call_sync_repo_to_local(reply)
    \/ \E fn \in {"upload_to_lakefs", "upload_to_lakefs_boto"},
          file_paths \in SeqUpTo(FilePaths, MaxFiles), as_main \in BOOLEAN :
          call_upload(fn, file_paths, as_main)
    \/ \E reply \in S3Replies : upload_to_lakefs_file(reply)
    \/ \E reply \in S3Replies : upload_to_lakefs_boto_file(reply)
    \/ upload_return

SpecStore == Init /\ [][NextStore]_vars

-----------------------------------------------------------------------------
(* Claims about the storage wrappers.                                      *)

StorageOps ==
    SimpleOps \cup {"remove_mfs_path", "tag_file", "commit_to_lakefs",
                    "sync_repo_to_local", "upload_to_lakefs", "upload_to_lakefs_boto"}

storage_called == called /\ caller.fn \in StorageOps

is_request(e) == e.op = "request"

requests_made == SelectSeq(log, is_request)

\* the reply to the last request of the call
last_reply == requests_made[Len(requests_made)].reply

\* C13: exceptions become results.  A call of an operation of IPFSClient or
\* LakeClient never raises to its caller: whatever the server or the file
\* system does, the call ends by returning.
C13_WrappersNeverRaise ==
    storage_called =>
        /\ pc # "raised"
        /\ ~raised
        /\ ended => returned

\* the reply is an HTTP error of the given status whose text holds the phrase
http_error_with(reply, status, phrase) ==
    /\ "raised" \in DOMAIN reply
    /\ reply.raised = "HTTPError"
    /\ reply.status = status
    /\ contains(reply.text, phrase)

\* the same, with the letters of the text in lower case
http_error_with_lowered(reply, status, phrase) ==
    /\ "raised" \in DOMAIN reply
    /\ reply.raised = "HTTPError"
    /\ reply.status = status
    /\ contains(lower(reply.text), phrase)

\* C15: benign conditions.  remove_mfs_path answered with HTTP 500 and
\* 'does not exist' returns True; tag_file whose files/cp request is
\* answered with HTTP 500 and 'file already exists' (in any case of the
\* letters) returns False and logs the warning; commit_to_lakefs answered
\* with an ApiException of status 400 and 'commit: no changes' returns None.
\* None of the three calls raises then.
C15_BenignConditions ==
    (storage_called /\ ended /\ requests_made # <<>>) =>
        /\ (caller.fn = "remove_mfs_path"
            /\ http_error_with(last_reply, 500, DOES_NOT_EXIST)) =>
               /\ pc = "done"
               /\ outcome = [returned |-> TRUE]
        /\ (caller.fn = "tag_file"
            /\ requests_made[Len(requests_made)].fn = "files/cp"
            /\ http_error_with_lowered(last_reply, 500, FILE_ALREADY_EXISTS)) =>
               /\ pc = "done"
               /\ outcome = [returned |-> FALSE]
               /\ log[Len(log)].op = "logger.warning"
        /\ (caller.fn = "commit_to_lakefs"
            /\ "raised" \in DOMAIN last_reply
            /\ last_reply.raised = "ApiException"
            /\ last_reply.status = 400
            /\ contains(last_reply.body, COMMIT_NO_CHANGES)) =>
               /\ pc = "done"
               /\ outcome = [returned |-> None]

\* tag_file with overwrite: the removal was answered 'does not exist', the
\* copy 'File Already Exists', and the call returned False
C15_Witness ==
    /\ storage_called
    /\ caller.fn = "tag_file"
    /\ pc = "done"
    /\ Len(requests_made) = 3
    /\ http_error_with(requests_made[2].reply, 500, DOES_NOT_EXIST)
    /\ http_error_with_lowered(last_reply, 500, FILE_ALREADY_EXISTS)
    /\ ~http_error_with(last_reply, 500, FILE_ALREADY_EXISTS)
    /\ outcome = [returned |-> FALSE]

-----------------------------------------------------------------------------
(* The chain of tag_file and the list of upload_to_lakefs.                  *)

\* the endpoints of the requests made so far, in the order they were made
endpoints == [n \in 1..Len(requests_made) |-> requests_made[n].fn]

is_prefix(s, whole) == Len(s) <= Len(whole) /\ s = SubSeq(whole, 1, Len(s))

\* the reply is a response that passed raise_for_status
succeeded(reply) == "ok" \in DOMAIN reply

\* the step reports its failure as False: the reply is an HTTP error status
\* (for files/mkdir, any failure is reported so)
reported_false_by_rm(reply) == "raised" \in DOMAIN reply /\ reply.raised = "HTTPError"

\* C21: the chain of tag_file.  The requests of a call are, in this order,
\* files/mkdir for the parent directory, files/rm when overwrite is true, and
\* files/cp: without overwrite there is no files/rm.  A files/mkdir that
\* failed, or a files/rm that was answered with an error status, is followed
\* by the next request of the chain; the call never raises, and it returns
\* True exactly when files/cp was requested and succeeded.
C21_TagFileChain ==
    (called /\ caller.fn = "tag_file") =>
        /\ pc # "raised"
        /\ is_prefix(endpoints, IF caller.overwrite
                                THEN <<"files/mkdir", "files/rm", "files/cp">>
                                ELSE <<"files/mkdir", "files/cp">>)
        /\ ~caller.overwrite => \A n \in 1..Len(endpoints) : endpoints[n] # "files/rm"
        /\ endpoints # <<>> => requests_made[1].arg = parent_dir_of(caller.mfs_path)
        /\ ended =>
              /\ returned
              /\ Len(endpoints) >= 1
              /\ caller.overwrite => Len(endpoints) >= 2
              /\ (~caller.overwrite
                  \/ succeeded(requests_made[2].reply)
                  \/ reported_false_by_rm(requests_made[2].reply)) =>
                     endpoints[Len(endpoints)] = "files/cp"
              /\ outcome.returned = TRUE <=>
                     /\ endpoints[Len(endpoints)] = "files/cp"
                     /\ succeeded(last_reply)

\* tag_file with overwrite: files/mkdir failed, files/rm was answered with an
\* error status that is no 'does not exist', files/cp succeeded, True returned
C21_Witness ==
    /\ called
    /\ caller.fn = "tag_file"
    /\ caller.overwrite
    /\ pc = "done"
    /\ endpoints = <<"files/mkdir", "files/rm", "files/cp">>
    /\ ~succeeded(requests_made[1].reply)
    /\ reported_false_by_rm(requests_made[2].reply)
    /\ requests_made[2].reply.status = 404
    /\ succeeded(requests_made[3].reply)
    /\ outcome = [returned |-> TRUE]

\* C22: the list of upload_to_lakefs.  The call makes its uploads in the
\* order of the input paths, one per path, and entry k of the list is 200
\* when upload k succeeded and -1 when it failed; the call never raises, and
\* it ends by returning the list with one entry for every input path.
C22_OneStatusPerFile ==
    (called /\ caller.fn = "upload_to_lakefs") =>
        /\ pc # "raised"
        /\ ~raised
        /\ Len(requests_made) <= Len(caller.file_paths)
        /\ Len(frame.results) = Len(requests_made)
        /\ \A k \in 1..Len(requests_made) :
              /\ requests_made[k].arg = caller.file_paths[k]
              /\ succeeded(requests_made[k].reply) => frame.results[k] = 200
              /\ ~succeeded(requests_made[k].reply) => frame.results[k] = -1
        /\ ended =>
              /\ outcome = [returned |-> frame.results]
              /\ Len(outcome.returned) = Len(caller.file_paths)

\* two different files: the first upload failed, the second succeeded
C22_Witness ==
    /\ called
    /\ caller.fn = "upload_to_lakefs"
    /\ pc = "done"
    /\ Len(caller.file_paths) = 2
    /\ caller.file_paths[1] # caller.file_paths[2]
    /\ ~succeeded(requests_made[1].reply)
    /\ succeeded(requests_made[2].reply)
    /\ outcome = [returned |-> <<-1, 200>>]

=============================================================================
